---------------------------- MODULE Spec2Model ----------------------------
(***************************************************************************)
(* A model of server/jquest/api.py, the tastypie resources of jquest-core. *)
(*                                                                         *)
(* Four specifications share the module's variables:                       *)
(*   SpecProject  AdditionalModelResource.dehydrate / detail_dehydrate,    *)
(*                run by two request threads that share the resource       *)
(*                classes' field descriptors;                              *)
(*   SpecCreate   UserResource.obj_create and the nested UserOauth saves;  *)
(*   SpecFields   AdditionalModelResource.get_fields;                      *)
(*   SpecDehydrate  UserProgressionResource.dehydrate_state and            *)
(*                MissionResource.dehydrate_image.                         *)
(***************************************************************************)
EXTENDS Naturals, Sequences, FiniteSets, TLC

VARIABLES
    \* -- projection (dehydrate / detail_dehydrate) --
    pc,             \* per request thread: its position in dehydrate
    req,            \* per request thread: the bundle's object and request
    data,           \* per request thread: bundle.data
    idx,            \* per request thread: position in additional_detail_fields
    out,            \* per request thread: <<>> or <<the returned bundle.data>>
    ran,            \* per request thread: the extractors run, in order
    field_object,   \* the field descriptors of Meta.additional_detail_fields
    started,        \* requests received so far
    \* -- UserResource.obj_create --
    cpc,            \* position in obj_create
    payload,        \* bundle.data["oauths"] of the call, as a shape
    obj,            \* bundle.obj: 0 (none) or the account's pk
    accounts,       \* persisted User rows: pk -> number of save() calls
    oauths,         \* persisted UserOauth rows, in insertion order
    made,           \* UserOauth rows saved by the current call
    opos,           \* position in the oauths list
    ret,            \* <<>> or <<pk of the returned bundle's object>>
    err,            \* "none", "base" or "oauth": where the call raised
    calls,          \* obj_create calls so far
    \* -- get_fields --
    fpc, object_class, schema, excludes, built, fields, fpos,
    \* -- dehydrate_state / dehydrate_image --
    dpc, PROGRESSION_STATES, bundle, result

projVars == <<pc, req, data, idx, out, ran, field_object, started>>
createVars == <<cpc, payload, obj, accounts, oauths, made, opos, ret, err, calls>>
fieldVars == <<fpc, object_class, schema, excludes, built, fields, fpos>>
dehVars == <<dpc, PROGRESSION_STATES, bundle, result>>
vars == <<projVars, createVars, fieldVars, dehVars>>

(***************************************************************************)
(* Bounds.                                                                 *)
(***************************************************************************)
MaxPk == 2          \* primary keys of the objects projected
MaxListed == 2      \* objects in the response a bundle belongs to
MaxStarted == 2     \* requests received in one run

\* Python's None where a string is expected.
None == "None"

(***************************************************************************)
(* dict helpers: bundle.data is a function from the keys present.          *)
(***************************************************************************)
SetItem(d, k, v) == [x \in (DOMAIN d) \cup {k} |-> IF x = k THEN v ELSE d[x]]

(***************************************************************************)
(* The resource classes built on AdditionalModelResource.  Each gives its  *)
(* Meta: resource_name, the additional_detail_fields in iteration order    *)
(* with the descriptor's dehydrated_type, and the names for which the      *)
(* class has a dehydrate_<name> method.  "user" and "instance" are the     *)
(* file's own; "sample" is a subclass with a non-related field and an      *)
(* override, the two paths of detail_dehydrate the file's own resources    *)
(* do not take.                                                            *)
(***************************************************************************)
Threads == {"t1", "t2"}

ApiName == "v1"

Resources == {"user", "instance", "sample"}

AdditionalDetailFields(res) ==
    CASE res = "user" -> << [name |-> "progressions", dehydrated_type |-> "related"] >>
      [] res = "instance" -> << [name |-> "missions", dehydrated_type |-> "related"] >>
      [] OTHER -> << [name |-> "children", dehydrated_type |-> "related"],
                     [name |-> "summary", dehydrated_type |-> "string"] >>

DehydrateMethods(res) ==
    CASE res = "sample" -> {"children", "summary"}
      [] OTHER -> {}

AdditionalNames(res) ==
    {AdditionalDetailFields(res)[i].name : i \in 1..Len(AdditionalDetailFields(res))}

\* One descriptor object per entry of a class's additional_detail_fields.
FieldKeys == UNION {{<<res, f>> : f \in AdditionalNames(res)} : res \in Resources}

\* full_dehydrate has dehydrated the base fields before it calls dehydrate.
BaseData(rq) == [f \in {"id"} |-> <<"attr", "id", rq.res, rq.pk>>]

\* Resource.get_resource_uri: the canonical detail URI of the bundle's object.
get_resource_uri(rq) ==
    "/api/" \o ApiName \o "/" \o rq.res \o "/" \o ToString(rq.pk) \o "/"

ListUri(res) == "/api/" \o ApiName \o "/" \o res \o "/"

\* The detail URI of a user_oauth object, whose representation embeds a full
\* representation of its user (UserOauthResource.user, full=True).
NestingUri(k) == "/api/" \o ApiName \o "/user_oauth/" \o ToString(k) \o "/"

\* bundle.request.path for an object of resource res with primary key pk,
\* and the number of objects in the response: the object's own detail URI
\* (one object), the list URI, or the URI of an embedding object.
RequestPaths(res, pk) ==
    {[path |-> "/api/" \o ApiName \o "/" \o res \o "/" \o ToString(pk) \o "/", listed |-> 1]}
    \cup {[path |-> ListUri(res), listed |-> n] : n \in 1..MaxListed}
    \cup {[path |-> NestingUri(k), listed |-> 1] : k \in 1..MaxPk}

\* The requests a thread can receive: the object, the request path, the
\* number of objects in the response, and whether the object's relationship
\* cannot be resolved.
Requests ==
    UNION { UNION { { [res |-> res, pk |-> pk, path |-> p.path, listed |-> p.listed, bad |-> b] :
                        p \in RequestPaths(res, pk), b \in BOOLEAN } :
                    pk \in 1..MaxPk } :
            res \in Resources }

NoRequest == [res |-> "user", pk |-> 0, path |-> "", listed |-> 0, bad |-> FALSE]

\* A test on the number of objects in the response, which line 49 is not.
IsDetailByCount(rq) == rq.listed = 1

\* The test of line 49.

IsDetail(rq) == get_resource_uri(rq) = rq.path

(***************************************************************************)
(* detail_dehydrate, line by line.                                         *)
(***************************************************************************)
Unbound == [api_name |-> None, resource_name |-> None]

FieldAt(rq, i) == AdditionalDetailFields(rq.res)[i]

\* A binding that would depend on the request.
BindApiNameToPath(fo, rq) == [fo EXCEPT !.api_name = rq.path]

\* Lines 34 and 35: the descriptor after each assignment.  self._meta is
\* the resource class's, whatever the bundle.

BindApiName(fo, rq) == [fo EXCEPT !.api_name = ApiName]

BindResourceName(fo, rq) == [fo EXCEPT !.resource_name = rq.res]

\* An extractor whose failure would be swallowed.
NeverRaises(fd, rq) == FALSE

\* field_object.dehydrate(bundle) raises when the relationship of the
\* bundle's object cannot be resolved.

ExtractorRaises(fd, rq) == fd.dehydrated_type = "related" /\ rq.bad

\* field_object.dehydrate(bundle): a related field dehydrates the related
\* objects under the namespace the descriptor is bound to.
Extractor(fd, fo, rq) ==
    IF fd.dehydrated_type = "related"
    THEN <<"related", fo.api_name, fo.resource_name, rq.pk>>
    ELSE <<"attr", fd.name, rq.res, rq.pk>>

\* dehydrate_<name>(bundle): the method sees the bundle, bundle.data[name]
\* included when it is there.
Method(name, d) ==
    <<"method", name, IF name \in DOMAIN d THEN <<d[name]>> ELSE <<>> >>

\* Line 37.
StoreRaw(d, fd, fo, rq) == SetItem(d, fd.name, Extractor(fd, fo, rq))

\* A loop without lines 40-43.
KeepRaw(d, name, res) == d

\* Lines 40-43.

ApplyMethod(d, name, res) ==
    IF name \in DehydrateMethods(res) THEN SetItem(d, name, Method(name, d)) ELSE d

\* Where the loop of line 31 goes for position i.
LoopPc(rq, i) ==
    IF i > Len(AdditionalDetailFields(rq.res)) THEN "return"
    ELSE IF FieldAt(rq, i).dehydrated_type = "related" THEN "bind_api"
    ELSE "extract"

\* A request reaches dehydrate on a free thread.
Receive(t) ==
    /\ pc[t] = "idle"
    /\ started < MaxStarted
    /\ \E rq \in Requests :
         /\ req' = [req EXCEPT ![t] = rq]
         /\ data' = [data EXCEPT ![t] = BaseData(rq)]
    /\ pc' = [pc EXCEPT ![t] = "dehydrate"]
    /\ idx' = [idx EXCEPT ![t] = 0]
    /\ out' = [out EXCEPT ![t] = <<>>]
    /\ ran' = [ran EXCEPT ![t] = <<>>]
    /\ started' = started + 1
    /\ UNCHANGED <<field_object, createVars, fieldVars, dehVars>>

\* Line 49.
Dehydrate(t) ==
    /\ pc[t] = "dehydrate"
    /\ IF IsDetail(req[t])
       THEN /\ pc' = [pc EXCEPT ![t] = LoopPc(req[t], 1)]
            /\ idx' = [idx EXCEPT ![t] = 1]
       ELSE /\ pc' = [pc EXCEPT ![t] = "return"]
            /\ UNCHANGED idx
    /\ UNCHANGED <<req, data, out, ran, field_object, started, createVars, fieldVars, dehVars>>

\* Line 34.
BindApi(t) ==
    /\ pc[t] = "bind_api"
    /\ LET k == <<req[t].res, FieldAt(req[t], idx[t]).name>>
       IN field_object' = [field_object EXCEPT ![k] = BindApiName(@, req[t])]
    /\ pc' = [pc EXCEPT ![t] = "bind_res"]
    /\ UNCHANGED <<req, data, idx, out, ran, started, createVars, fieldVars, dehVars>>

\* Line 35.
BindRes(t) ==
    /\ pc[t] = "bind_res"
    /\ LET k == <<req[t].res, FieldAt(req[t], idx[t]).name>>
       IN field_object' = [field_object EXCEPT ![k] = BindResourceName(@, req[t])]
    /\ pc' = [pc EXCEPT ![t] = "extract"]
    /\ UNCHANGED <<req, data, idx, out, ran, started, createVars, fieldVars, dehVars>>

\* Line 37: the extractor runs; its exception leaves detail_dehydrate and
\* dehydrate, which have no handler.
Extract(t) ==
    /\ pc[t] = "extract"
    /\ LET fd == FieldAt(req[t], idx[t])
           fo == field_object[<<req[t].res, fd.name>>]
       IN /\ ran' = [ran EXCEPT ![t] = Append(@, fd.name)]
          /\ IF ExtractorRaises(fd, req[t])
             THEN /\ pc' = [pc EXCEPT ![t] = "raised"]
                  /\ UNCHANGED data
             ELSE /\ pc' = [pc EXCEPT ![t] = "method"]
                  /\ data' = [data EXCEPT ![t] = StoreRaw(@, fd, fo, req[t])]
    /\ UNCHANGED <<req, idx, out, field_object, started, createVars, fieldVars, dehVars>>

\* Lines 40-43, and back to line 31.
Override(t) ==
    /\ pc[t] = "method"
    /\ data' = [data EXCEPT ![t] = ApplyMethod(@, FieldAt(req[t], idx[t]).name, req[t].res)]
    /\ idx' = [idx EXCEPT ![t] = @ + 1]
    /\ pc' = [pc EXCEPT ![t] = LoopPc(req[t], idx[t] + 1)]
    /\ UNCHANGED <<req, out, ran, field_object, started, createVars, fieldVars, dehVars>>

\* Lines 45 and 52.
Return(t) ==
    /\ pc[t] = "return"
    /\ out' = [out EXCEPT ![t] = <<data[t]>>]
    /\ pc' = [pc EXCEPT ![t] = "done"]
    /\ UNCHANGED <<req, data, idx, ran, field_object, started, createVars, fieldVars, dehVars>>

\* The response is sent (or the error is) and the thread is free again.
Release(t) ==
    /\ pc[t] \in {"done", "raised"}
    /\ pc' = [pc EXCEPT ![t] = "idle"]
    /\ req' = [req EXCEPT ![t] = NoRequest]
    /\ data' = [data EXCEPT ![t] = <<>>]
    /\ idx' = [idx EXCEPT ![t] = 0]
    /\ out' = [out EXCEPT ![t] = <<>>]
    /\ ran' = [ran EXCEPT ![t] = <<>>]
    /\ UNCHANGED <<field_object, started, createVars, fieldVars, dehVars>>

(***************************************************************************)
(* UserResource.obj_create.                                                *)
(***************************************************************************)
MaxOauths == 2      \* elements of an oauths list
MaxCalls == 2       \* obj_create calls in one run

\* The elements an oauths payload is made of: keyword arguments UserOauth
\* accepts (its consumer and consumer_user_id, lines 166-167), or a value
\* UserOauth(**o) raises TypeError on.
GoodElements == { [ok |-> TRUE, consumer |-> "a", consumer_user_id |-> "1"],
                  [ok |-> TRUE, consumer |-> "b", consumer_user_id |-> "2"] }

BadElement == [ok |-> FALSE, consumer |-> None, consumer_user_id |-> None]

Elements == GoodElements \cup {BadElement}

ListsUpTo(n) == UNION {[1..k -> Elements] : k \in 0..n}

\* bundle.data seen through its "oauths" key: absent, a list, a dict, or a
\* value of another type (a string, a number, null).
Payloads ==
    {[has |-> FALSE, type |-> "absent", items |-> <<>>]}
    \cup {[has |-> TRUE, type |-> "list", items |-> l] : l \in ListsUpTo(MaxOauths)}
    \cup {[has |-> TRUE, type |-> "dict", items |-> <<e>>] : e \in Elements}
    \cup {[has |-> TRUE, type |-> ty, items |-> <<>>] : ty \in {"str", "int", "NoneType"}}

NoPayload == [has |-> FALSE, type |-> "absent", items |-> <<>>]

\* A dispatch whose second branch would take every value that is no list.
BranchUntyped(p) ==
    IF ~p.has THEN "skip" ELSE IF p.type = "list" THEN "list" ELSE "dict"

\* Lines 114-125: the branch the payload takes.

Branch(p) ==
    IF ~p.has THEN "skip"
    ELSE IF p.type = "list" THEN "list"
    ELSE IF p.type = "dict" THEN "dict"
    ELSE "skip"

\* The value UserOauth(**...) is given on line 126.
Single(p) == IF p.type = "dict" THEN p.items[1] ELSE BadElement

\* A row without the assignment of lines 122 and 127.
NewOauthUnlinked(o, user, id) ==
    [id |-> id, user |-> 0, consumer |-> o.consumer, consumer_user_id |-> o.consumer_user_id]

\* Lines 121-122 and 126-127: the row that save() inserts.

NewOauth(o, user, id) ==
    [id |-> id, user |-> user, consumer |-> o.consumer, consumer_user_id |-> o.consumer_user_id]

\* Model.save(): insert the row, or update the one there (counting saves).
Save(rows, pk) ==
    IF pk \in DOMAIN rows THEN [rows EXCEPT ![pk] = @ + 1] ELSE rows @@ (pk :> 1)

\* A base creation that would leave the saving to line 130.
BuildWithoutSaving(rows, pk) == rows

\* Line 111: what ModelResource.obj_create leaves in the user table.

SuperObjCreate(rows, pk) == Save(rows, pk)

AfterSuper(p) ==
    CASE Branch(p) = "list" -> IF Len(p.items) = 0 THEN "final_save" ELSE "loop"
      [] Branch(p) = "dict" -> "single"
      [] OTHER -> "final_save"

\* A POST reaches obj_create.
Call ==
    /\ cpc = "idle"
    /\ calls < MaxCalls
    /\ \E p \in Payloads : payload' = p
    /\ cpc' = "super"
    /\ obj' = 0
    /\ made' = <<>>
    /\ opos' = 1
    /\ ret' = <<>>
    /\ err' = "none"
    /\ calls' = calls + 1
    /\ UNCHANGED <<accounts, oauths, projVars, fieldVars, dehVars>>

\* Line 111, the base creation succeeding: the User is built, hydrated and
\* saved, and bundle.obj is it.
SuperCreate ==
    /\ cpc = "super"
    /\ LET pk == Cardinality(DOMAIN accounts) + 1
       IN /\ accounts' = SuperObjCreate(accounts, pk)
          /\ obj' = pk
    /\ cpc' = AfterSuper(payload)
    /\ UNCHANGED <<payload, oauths, made, opos, ret, err, calls, projVars, fieldVars, dehVars>>

\* Line 111, the base creation raising (validation, integrity): the
\* exception leaves obj_create before line 113.
SuperFails ==
    /\ cpc = "super"
    /\ cpc' = "failed"
    /\ err' = "base"
    /\ UNCHANGED <<payload, obj, accounts, oauths, made, opos, ret, calls, projVars, fieldVars, dehVars>>

\* Lines 120-123, one element of the list.
SaveListed ==
    /\ cpc = "loop"
    /\ LET o == payload.items[opos]
       IN IF o.ok
          THEN LET row == NewOauth(o, obj, Len(oauths) + 1)
               IN /\ oauths' = Append(oauths, row)
                  /\ made' = Append(made, row)
                  /\ opos' = opos + 1
                  /\ cpc' = IF opos = Len(payload.items) THEN "final_save" ELSE "loop"
                  /\ UNCHANGED err
          ELSE /\ cpc' = "failed"
               /\ err' = "oauth"
               /\ UNCHANGED <<oauths, made, opos>>
    /\ UNCHANGED <<payload, obj, accounts, ret, calls, projVars, fieldVars, dehVars>>

\* Lines 126-128.
SaveSingle ==
    /\ cpc = "single"
    /\ LET o == Single(payload)
       IN IF o.ok
          THEN LET row == NewOauth(o, obj, Len(oauths) + 1)
               IN /\ oauths' = Append(oauths, row)
                  /\ made' = Append(made, row)
                  /\ cpc' = "final_save"
                  /\ UNCHANGED err
          ELSE /\ cpc' = "failed"
               /\ err' = "oauth"
               /\ UNCHANGED <<oauths, made>>
    /\ UNCHANGED <<payload, obj, accounts, opos, ret, calls, projVars, fieldVars, dehVars>>

\* Lines 130-131.
FinalSave ==
    /\ cpc = "final_save"
    /\ accounts' = Save(accounts, obj)
    /\ ret' = <<obj>>
    /\ cpc' = "returned"
    /\ UNCHANGED <<payload, obj, oauths, made, opos, err, calls, projVars, fieldVars, dehVars>>

\* The response (or the error) is sent; the next POST can come.
Finish ==
    /\ cpc \in {"returned", "failed"}
    /\ cpc' = "idle"
    /\ payload' = NoPayload
    /\ obj' = 0
    /\ made' = <<>>
    /\ opos' = 1
    /\ ret' = <<>>
    /\ err' = "none"
    /\ UNCHANGED <<accounts, oauths, calls, projVars, fieldVars, dehVars>>

(***************************************************************************)
(* AdditionalModelResource.get_fields.                                     *)
(***************************************************************************)
MaxFields == 2      \* fields of the object class's schema

\* The name of the i-th field of cls._meta.object_class._meta.fields.
FieldName(i) == "f" \o ToString(i)

\* A resource field descriptor, as far as get_fields touches it.
Descriptor(name, blank) == [attribute |-> name, blank |-> blank]

\* The schemas a resource class can sit on: each field's blank marker.
Schemas == UNION {[1..n -> BOOLEAN] : n \in 0..MaxFields}

SchemaNames(sch) == {FieldName(i) : i \in 1..Len(sch)}

\* Line 64: the dicts ModelResource.get_fields can return: the declared
\* resource_uri field and one descriptor per schema field that is not
\* excluded, each with the blank flag the default construction chose.
DefaultFields(hasClass, sch, excl) ==
    LET names == IF hasClass THEN (SchemaNames(sch) \ excl) \cup {"resource_uri"}
                 ELSE {"resource_uri"}
    IN { [n \in names |-> Descriptor(n, flags[n])] : flags \in [names -> BOOLEAN] }

\* The default construction's own treatment of blank: none.
IgnoreBlank(fs, name, blank) == fs

\* Lines 68-71 for one schema field.

PatchBlank(fs, name, blank) ==
    IF blank = TRUE /\ name \in DOMAIN fs
    THEN [fs EXCEPT ![name] = [@ EXCEPT !.blank = TRUE]]
    ELSE fs

\* Lines 63-66.
SuperGetFields ==
    /\ fpc = "start"
    /\ \E d \in DefaultFields(object_class, schema, excludes) :
         /\ built' = d
         /\ fields' = d
    /\ fpc' = IF object_class /\ Len(schema) > 0 THEN "scan" ELSE "returned"
    /\ fpos' = 1
    /\ UNCHANGED <<object_class, schema, excludes, projVars, createVars, dehVars>>

\* Lines 67-72, one field of the schema.
ScanField ==
    /\ fpc = "scan"
    /\ fields' = PatchBlank(fields, FieldName(fpos), schema[fpos])
    /\ fpos' = fpos + 1
    /\ fpc' = IF fpos = Len(schema) THEN "returned" ELSE "scan"
    /\ UNCHANGED <<object_class, schema, excludes, built, projVars, createVars, dehVars>>

(***************************************************************************)
(* dehydrate_state and dehydrate_image.  Python values are tagged with     *)
(* their type, so that False, None, "" and a string never compare equal.   *)
(***************************************************************************)
MaxCodes == 2       \* state codes the enumeration draws on
MaxStates == 3      \* pairs of the enumeration

PyStr(v) == <<"str", v>>
PyFalse == <<"bool", "False">>
PyNone == <<"NoneType", "None">>

\* bool(v)
Truthy(v) == v \notin {PyFalse, PyNone, PyStr("")}

Codes == {PyStr("s" \o ToString(i)) : i \in 1..MaxCodes}

Labels == {PyStr("Pending"), PyStr("Done")}

\* UserProgression.PROGRESSION_STATES: a tuple of (code, label) pairs.
Enumerations == UNION {[1..n -> Codes \X Labels] : n \in 0..MaxStates}

\* The raw state of a progression: a code, which the enumeration may or
\* may not hold.
RawStates == Codes \cup {PyStr("gone")}

\* A translation that would fall back on the raw code.
dehydrate_state_raw(b, states) ==
    LET state == SelectSeq(states, LAMBDA st : b.data.state = st[1])
    IN IF Len(state) > 0 THEN state[1][2] ELSE b.data.state

\* Lines 151-152.
dehydrate_state(b, states) ==
    LET state == SelectSeq(states, LAMBDA st : b.data.state = st[1])
    IN IF Len(state) > 0 THEN state[1][2] ELSE PyFalse

\* The image paths of a mission: rooted (as MEDIA_URL makes them) or
\* relative to the request's path.
RootedPaths == {"/img/x.png", "/media/m/1.jpg"}

RelativePaths == {"img/y.png"}

Images == {PyNone, PyStr("")} \cup {PyStr(p) : p \in RootedPaths \cup RelativePaths}

Origins == {"https://api.example.com", "http://localhost:8000"}

MissionPaths == {"/api/v1/mission/", "/api/v1/mission/1/"}

\* HttpRequest.build_absolute_uri of a path: the path joined to the
\* request's own URI, which ends with "/".
build_absolute_uri(rq, location) ==
    IF location \in RootedPaths
    THEN rq.origin \o location
    ELSE rq.origin \o rq.path \o location

\* A projection that would leave the path as it is.
dehydrate_image_unbuilt(b) ==
    IF Truthy(b.data.image) THEN b.data.image ELSE PyNone

\* Line 260.
dehydrate_image(b) ==
    IF Truthy(b.data.image)
    THEN PyStr(build_absolute_uri(b.request, b.data.image[2]))
    ELSE PyNone

NoBundle == [data |-> [state |-> PyNone, image |-> PyNone],
             request |-> [origin |-> "", path |-> ""]]

DehydrateState ==
    /\ \E raw \in RawStates :
         LET b == [data |-> [state |-> raw, image |-> PyNone],
                   request |-> [origin |-> "", path |-> ""]]
         IN /\ bundle' = b
            /\ result' = <<dehydrate_state(b, PROGRESSION_STATES)>>
    /\ dpc' = "state"
    /\ UNCHANGED <<PROGRESSION_STATES, projVars, createVars, fieldVars>>

DehydrateImage ==
    /\ \E img \in Images, o \in Origins, p \in MissionPaths :
         LET b == [data |-> [state |-> PyNone, image |-> img],
                   request |-> [origin |-> o, path |-> p]]
         IN /\ bundle' = b
            /\ result' = <<dehydrate_image(b)>>
    /\ dpc' = "image"
    /\ UNCHANGED <<PROGRESSION_STATES, projVars, createVars, fieldVars>>

(***************************************************************************)
(* The specifications.                                                     *)
(***************************************************************************)
ProjIdle ==
    /\ pc = [t \in Threads |-> "idle"]
    /\ req = [t \in Threads |-> NoRequest]
    /\ data = [t \in Threads |-> <<>>]
    /\ idx = [t \in Threads |-> 0]
    /\ out = [t \in Threads |-> <<>>]
    /\ ran = [t \in Threads |-> <<>>]
    /\ field_object = [k \in FieldKeys |-> Unbound]
    /\ started = 0

CreateIdle ==
    /\ cpc = "idle"
    /\ payload = NoPayload
    /\ obj = 0
    /\ accounts = <<>>
    /\ oauths = <<>>
    /\ made = <<>>
    /\ opos = 1
    /\ ret = <<>>
    /\ err = "none"
    /\ calls = 0

FieldsIdle ==
    /\ fpc = "off"
    /\ object_class = FALSE
    /\ schema = <<>>
    /\ excludes = {}
    /\ built = <<>>
    /\ fields = <<>>
    /\ fpos = 1

DehIdle ==
    /\ dpc = "idle"
    /\ PROGRESSION_STATES = <<>>
    /\ bundle = NoBundle
    /\ result = <<>>

InitProject == ProjIdle /\ CreateIdle /\ FieldsIdle /\ DehIdle

NextProject ==
    \E t \in Threads :
        \/ Receive(t)
        \/ Dehydrate(t)
        \/ BindApi(t)
        \/ BindRes(t)
        \/ Extract(t)
        \/ Override(t)
        \/ Return(t)
        \/ Release(t)

SpecProject == InitProject /\ [][NextProject]_vars

InitCreate == ProjIdle /\ CreateIdle /\ FieldsIdle /\ DehIdle

NextCreate ==
    \/ Call
    \/ SuperCreate
    \/ SuperFails
    \/ SaveListed
    \/ SaveSingle
    \/ FinalSave
    \/ Finish

SpecCreate == InitCreate /\ [][NextCreate]_vars

\* A resource class: whether its Meta has an object class, the class's
\* schema, and the names Meta.excludes keeps out of the resource.
InitFields ==
    /\ ProjIdle /\ CreateIdle /\ DehIdle
    /\ fpc = "start"
    /\ object_class \in BOOLEAN
    /\ schema \in Schemas
    /\ excludes \in SUBSET SchemaNames(schema)
    /\ built = <<>>
    /\ fields = <<>>
    /\ fpos = 1

NextFields == SuperGetFields \/ ScanField

SpecFields == InitFields /\ [][NextFields]_vars

InitDehydrate ==
    /\ ProjIdle /\ CreateIdle /\ FieldsIdle
    /\ dpc = "idle"
    /\ PROGRESSION_STATES \in Enumerations
    /\ bundle = NoBundle
    /\ result = <<>>

NextDehydrate == DehydrateState \/ DehydrateImage

SpecDehydrate == InitDehydrate /\ [][NextDehydrate]_vars

(***************************************************************************)
(* What dehydrate returns when nothing else runs: the loop of              *)
(* detail_dehydrate from position i on, each related descriptor bound by   *)
(* this request alone.                                                     *)
(***************************************************************************)
Bound(rq) == BindResourceName(BindApiName(Unbound, rq), rq)

RECURSIVE SerialLoop(_, _, _)
SerialLoop(d, rq, i) ==
    IF i > Len(AdditionalDetailFields(rq.res)) THEN d
    ELSE LET fd == FieldAt(rq, i)
             fo == IF fd.dehydrated_type = "related" THEN Bound(rq) ELSE Unbound
         IN SerialLoop(ApplyMethod(StoreRaw(d, fd, fo, rq), fd.name, rq.res), rq, i + 1)

SerialProjection(rq) ==
    IF IsDetail(rq) THEN SerialLoop(BaseData(rq), rq, 1) ELSE BaseData(rq)

\* The descriptor a thread is working on, and whether it is inside the
\* iteration that binds and reads it.
KeyOf(t) == <<req[t].res, FieldAt(req[t], idx[t]).name>>

InIteration(t) == pc[t] \in {"bind_api", "bind_res", "extract"}

(***************************************************************************)
(* Properties of dehydrate and detail_dehydrate (SpecProject).             *)
(***************************************************************************)

\* C1: dehydrate adds the additional-detail fields to the mapping if and
\* only if the object's canonical resource URI equals the request path; when
\* the path differs (a list URI, even of a single object, or the URI of an
\* embedding object) no additional field is added and no extractor is run.
C1_DetailIffUriEqualsPath ==
    \A t \in Threads :
        pc[t] # "idle" =>
            LET rq == req[t]
                same == ("/api/v1/" \o rq.res \o "/" \o ToString(rq.pk) \o "/") = rq.path
            IN /\ ~same => ran[t] = <<>> /\ data[t] = BaseData(rq)
               /\ pc[t] = "done" =>
                    IF same
                    THEN AdditionalNames(rq.res) \subseteq DOMAIN out[t][1]
                    ELSE /\ AdditionalNames(rq.res) \cap DOMAIN out[t][1] = {}
                         /\ out[t][1] = BaseData(rq)

\* One thread has answered a detail request with the additional fields, the
\* other a list request of exactly one object without them.
C1_Witness ==
    \E t, u \in Threads :
        /\ pc[t] = "done" /\ req[t].path = get_resource_uri(req[t])
        /\ AdditionalNames(req[t].res) \subseteq DOMAIN out[t][1]
        /\ pc[u] = "done" /\ req[u].path = ListUri(req[u].res) /\ req[u].listed = 1
        /\ DOMAIN out[u][1] = {"id"}

\* C2: for an additional field with a dehydrate_<field> method the value
\* returned is the method's output, and the method was called on a bundle
\* that already held the raw extractor value; a field without a method
\* keeps its raw value.
C2_OverrideOutputIsFinal ==
    \A t \in Threads :
        LET rq == req[t]
            raw(fd) == IF fd.dehydrated_type = "related"
                       THEN <<"related", ApiName, rq.res, rq.pk>>
                       ELSE <<"attr", fd.name, rq.res, rq.pk>>
        IN /\ pc[t] = "method" => data[t][FieldAt(rq, idx[t]).name] = raw(FieldAt(rq, idx[t]))
           /\ pc[t] = "done" /\ IsDetail(rq) =>
                \A i \in 1..Len(AdditionalDetailFields(rq.res)) :
                    LET fd == FieldAt(rq, i)
                    IN out[t][1][fd.name] =
                         IF fd.name \in DehydrateMethods(rq.res)
                         THEN <<"method", fd.name, <<raw(fd)>> >>
                         ELSE raw(fd)

\* A detail request of the resource that has both kinds of field with a
\* method has been answered, and so has one of a resource that has none.
C2_Witness ==
    \E t, u \in Threads :
        /\ pc[t] = "done" /\ req[t].res = "sample" /\ IsDetail(req[t])
        /\ out[t][1]["summary"] = <<"method", "summary", << <<"attr", "summary", "sample", req[t].pk>> >> >>
        /\ pc[u] = "done" /\ req[u].res = "user" /\ IsDetail(req[u])
        /\ out[u][1]["progressions"] = <<"related", "v1", "user", req[u].pk>>

\* C8 (as stated): no step of one request's projection writes state that
\* another running projection reads or writes.
C8_NoSharedMutableState ==
    [][\A t \in Threads :
          (pc[t] \in {"bind_api", "bind_res"} /\ pc'[t] # pc[t]) =>
              \A u \in Threads \ {t} : ~(InIteration(u) /\ KeyOf(u) = KeyOf(t))]_vars

\* C8 (amended): the related descriptors of additional_detail_fields are
\* shared and every detail projection rebinds them, but each projection
\* reads back from the descriptor exactly what it has written itself, so
\* whatever the interleaving each request's result is the one it has when
\* it runs alone.
C8_InterleavingsMatchSerial ==
    \A t \in Threads :
        /\ (pc[t] = "extract" /\ FieldAt(req[t], idx[t]).dehydrated_type = "related")
              => field_object[KeyOf(t)] = Bound(req[t])
        /\ pc[t] = "done" => out[t][1] = SerialProjection(req[t])

\* A thread has answered a detail request while the other, on another
\* object of the same resource, is between its two writes to the descriptor
\* both use.
C8_Witness ==
    \E t, u \in Threads :
        /\ t # u
        /\ pc[t] = "done" /\ IsDetail(req[t])
        /\ pc[u] = "bind_res" /\ req[u].res = req[t].res /\ req[u].pk # req[t].pk
        /\ out[t][1] = SerialProjection(req[t])

\* C9: when the extractor of an additional field fails during a detail
\* request the failure leaves the projection: no later step of the loop
\* runs, the extractor is not run again, and no mapping is returned.
C9_ExtractorFailureIsFatal ==
    \A t \in Threads :
        LET rq == req[t]
            failed == \E i \in 1..Len(ran[t]) :
                         \E j \in 1..Len(AdditionalDetailFields(rq.res)) :
                            /\ FieldAt(rq, j).name = ran[t][i]
                            /\ FieldAt(rq, j).dehydrated_type = "related"
                            /\ rq.bad
        IN /\ failed => /\ pc[t] = "raised"
                        /\ out[t] = <<>>
                        /\ ran[t][Len(ran[t])] \notin DOMAIN data[t]
           /\ pc[t] = "raised" => failed
           /\ \A i, j \in 1..Len(ran[t]) : ran[t][i] = ran[t][j] => i = j

\* The extractor of a detail request has raised on an object whose
\* relationship cannot be resolved.
C9_Witness ==
    \E t \in Threads :
        /\ pc[t] = "raised" /\ req[t].bad /\ IsDetail(req[t])
        /\ ran[t] = <<"progressions">> /\ out[t] = <<>>

(***************************************************************************)
(* Properties of UserResource.obj_create (SpecCreate).                     *)
(***************************************************************************)

\* C3: when obj_create returns for a payload with an oauths key, the call
\* has created one UserOauth per element of a list and exactly one for a
\* single mapping, each from its element and each linked to the new user.
C3_OneOauthPerElement ==
    (cpc = "returned" /\ payload.has /\ payload.type \in {"list", "dict"}) =>
        /\ payload.type = "list" => Len(made) = Len(payload.items)
        /\ payload.type = "dict" => Len(made) = 1
        /\ obj \in DOMAIN accounts
        /\ \A i \in 1..Len(made) :
              /\ made[i].user = obj
              /\ made[i].consumer = payload.items[i].consumer
              /\ made[i].consumer_user_id = payload.items[i].consumer_user_id
              /\ \E j \in 1..Len(oauths) : oauths[j] = made[i]
        /\ Cardinality({j \in 1..Len(oauths) : oauths[j].user = obj}) = Len(made)

\* obj_create has returned for a list of two elements, with two rows.
C3_Witness ==
    /\ cpc = "returned" /\ payload.type = "list"
    /\ Len(payload.items) = 2 /\ Len(made) = 2
    /\ made[1].user = obj /\ made[2].user = obj

\* C4: when the payload has no oauths key, or its oauths value is neither
\* a list nor a dict, nothing in the oauths handling raises, the call
\* creates no UserOauth, and once the base creation has succeeded it goes
\* on to save and return the user.
C4_OtherOauthsIgnored ==
    (cpc # "idle" /\ payload.type \notin {"list", "dict"}) =>
        /\ made = <<>>
        /\ err # "oauth"
        /\ cpc \in {"super", "final_save", "returned", "failed"}
        /\ cpc = "failed" => err = "base" /\ obj = 0
        /\ cpc = "final_save" => obj \in DOMAIN accounts
        /\ cpc = "returned" => ret = <<obj>> /\ obj \in DOMAIN accounts

\* obj_create has returned the user for a payload whose oauths is a string.
C4_Witness ==
    /\ cpc = "returned" /\ payload.has /\ payload.type = "str"
    /\ ret = <<obj>> /\ obj \in DOMAIN accounts /\ made = <<>>

\* C10: a UserOauth is saved only once the user it is linked to has been
\* persisted, and none is saved when the base creation fails.
C10_OauthAfterAccount ==
    /\ \A i \in 1..Len(oauths) : oauths[i].user \in DOMAIN accounts
    /\ made # <<>> => obj \in DOMAIN accounts
    /\ cpc = "super" => made = <<>>
    /\ err = "base" => made = <<>> /\ obj = 0

\* The first UserOauth of a list has been saved, the user row being there
\* since line 111 and not yet saved again.
C10_Witness ==
    /\ cpc = "loop" /\ Len(made) = 1
    /\ obj \in DOMAIN accounts /\ accounts[obj] = 1

(***************************************************************************)
(* Properties of get_fields (SpecFields).                                  *)
(***************************************************************************)

\* C7: when get_fields returns for a class with an object class, the
\* descriptor of every schema field marked blank has blank set, whatever
\* the default construction left there, and every other descriptor is as
\* the default construction produced it.
C7_BlankPropagates ==
    (fpc = "returned" /\ object_class) =>
        /\ DOMAIN fields = DOMAIN built
        /\ \A i \in 1..Len(schema) :
              FieldName(i) \in DOMAIN fields =>
                  IF schema[i]
                  THEN fields[FieldName(i)] = [built[FieldName(i)] EXCEPT !.blank = TRUE]
                  ELSE fields[FieldName(i)] = built[FieldName(i)]
        /\ fields["resource_uri"] = built["resource_uri"]

\* get_fields has returned with a blank descriptor the default
\* construction had left not blank.
C7_Witness ==
    /\ fpc = "returned" /\ object_class
    /\ \E i \in 1..Len(schema) :
          /\ schema[i] /\ FieldName(i) \in DOMAIN fields
          /\ ~built[FieldName(i)].blank /\ fields[FieldName(i)].blank

(***************************************************************************)
(* Properties of dehydrate_state and dehydrate_image (SpecDehydrate).      *)
(***************************************************************************)

\* C5: the projected state is the label of the first pair of
\* PROGRESSION_STATES whose code is the raw state; when no pair has that
\* code it is False, which is falsy and is not the raw code.
C5_StateLabelOrFalse ==
    dpc = "state" =>
        LET raw == bundle.data.state
            hits == {i \in 1..Len(PROGRESSION_STATES) : PROGRESSION_STATES[i][1] = raw}
        IN IF hits = {}
           THEN result = <<PyFalse>> /\ ~Truthy(result[1]) /\ result[1] # raw
           ELSE \E i \in hits : /\ \A j \in hits : i <= j
                                /\ result = <<PROGRESSION_STATES[i][2]>>

\* A progression whose code the enumeration does not hold has been
\* projected, the enumeration holding other codes.
C5_Witness ==
    /\ dpc = "state" /\ Len(PROGRESSION_STATES) = 2
    /\ \A i \in 1..2 : PROGRESSION_STATES[i][1] # bundle.data.state
    /\ result = <<PyFalse>>

\* C6: the projected image is None when the raw image is None or empty,
\* and otherwise the raw path made absolute on the request's origin, never
\* the raw path itself.
C6_ImageAbsoluteOrNone ==
    dpc = "image" =>
        LET raw == bundle.data.image
        IN IF raw \in {PyNone, PyStr("")}
           THEN result = <<PyNone>>
           ELSE /\ result[1] # raw
                /\ result[1][1] = "str"
                /\ result[1][2] \in {bundle.request.origin \o raw[2],
                                     bundle.request.origin \o bundle.request.path \o raw[2]}
                /\ raw[2] \in RootedPaths => result[1][2] = bundle.request.origin \o raw[2]

\* The image "/img/x.png" of a mission requested from
\* https://api.example.com has been projected.
C6_Witness ==
    /\ dpc = "image" /\ bundle.data.image = PyStr("/img/x.png")
    /\ bundle.request.origin = "https://api.example.com"
    /\ result = <<PyStr("https://api.example.com/img/x.png")>>

=============================================================================
